---- MODULE Spec2Model ----
(***************************************************************************)
(* Model of src/main.go: the log service (handleRoot, handleGet,           *)
(* handlePost, handleDelete over server.log guarded by fileMutex) and the  *)
(* simulation driver (main, startServer, runSimulation, sendPostRequest).  *)
(*                                                                         *)
(* The log file is a sequence of tokens.  A log entry is the token         *)
(* sequence fmt.Sprintf produces at main.go:91, ending with the token      *)
(* "\n".  Field values are opaque strings.  User-facing message texts are  *)
(* Ukrainian in the source and are written here in ASCII.                  *)
(***************************************************************************)
EXTENDS Integers, Sequences, FiniteSets, TLC

(* ------------------------------ bounds --------------------------------- *)
\* requests the outside clients send in one run of Spec
MaxRequests == 3
\* seconds the wall clock advances in one run
MaxClock == 1
\* I/O anomalies (failed open/read/write/truncate, short write) in one run
MaxFaults == 1
\* client-side timeouts of the driver in one run
MaxTimeouts == 1

(* --------------------------- program constants ------------------------- *)
StatusOK == 200
StatusBadRequest == 400
StatusMethodNotAllowed == 405
StatusInternalServerError == 500
\* ipCounter := 10
FirstIP == 10

VARIABLES
    now,        \* wall clock, in seconds (time.Now at RFC3339 resolution)
    file,       \* server.log: [exists, data]
    fileMutex,  \* 0 when unlocked, else the index of the request holding it
    reqs,       \* the requests the server has accepted, in arrival order
    faults,     \* I/O anomalies injected so far
    listener,   \* "none" | "starting" | "bound"
    mainPc,     \* "start" | "sleep" | "simulate" | "prompt" | "exited"
    sim,        \* runSimulation's loop state
    sent,       \* payloads handed to sendPostRequest, in order
    outcomes,   \* what sendPostRequest reported for each of them
    timeouts,   \* client timeouts so far
    lockOrder,  \* history: POST requests in the order they took fileMutex
                \*          since the last truncation
    base,       \* history: file content at start / after the last truncation
    completed,  \* history: POST requests that returned 200, in return order
    lastMod     \* history: "none"; "post" once a POST has opened the file;
                \*          "delete" once a DELETE has then answered 200

vars == <<now, file, fileMutex, reqs, faults, listener, mainPc, sim, sent,
          outcomes, timeouts, lockOrder, base, completed, lastMod>>

(* ------------------------------ data ----------------------------------- *)
\* type DevicePayload struct
DevicePayload(n, t, ip, r) ==
    [DeviceName |-> n, DeviceType |-> t, IPAddress |-> ip, RoutingType |-> r]

Fields == {"DeviceName", "DeviceType", "IPAddress", "RoutingType"}

\* the zero value of DevicePayload
ZeroPayload == DevicePayload("", "", "", "")

Payload1 == DevicePayload("PC1_1", "PC", "192.168.1.10", "Static")
Payload2 == DevicePayload("Laptop1_2", "Laptop", "192.168.2.13", "Static")

\* A request body: a JSON object giving the keys in `keys` (values in val),
\* or text that is no JSON object (such as "not json").
Body(kind, keys, val) == [kind |-> kind, keys |-> keys, val |-> val]

NoBody == Body("none", {}, ZeroPayload)

\* json.Marshal(data) at main.go:188
jsonMarshal(data) == [err |-> FALSE, json |-> Body("object", Fields, data)]

\* a decoder that takes whatever is no object for an empty record
jsonDecodeLenient(body) ==
    [err |-> FALSE,
     payload |-> [f \in Fields |->
                     IF f \in body.keys THEN body.val[f] ELSE ""]]

\* json.NewDecoder(r.Body).Decode(&payload) at main.go:85: an object fills
\* the fields it names and leaves the others at their zero value; anything
\* else is an error
jsonDecode(body) ==
    IF body.kind = "object"
    THEN [err |-> FALSE,
          payload |-> [f \in Fields |->
                          IF f \in body.keys THEN body.val[f] ELSE ""]]
    ELSE [err |-> TRUE, payload |-> ZeroPayload]

\* time.Now().Format(time.RFC3339), abstracted to the second count
FormatTime(t) == "T" \o ToString(t)

\* the format with the arguments for Type and IP in each other's place
FormatEntrySwapped(timestamp, p) ==
    << "[" \o timestamp \o "]",
       " Name=" \o p.DeviceName \o ",",
       " Type=" \o p.IPAddress \o ",",
       " IP=" \o p.DeviceType \o ",",
       " Routing=" \o p.RoutingType,
       "\n" >>

\* fmt.Sprintf("[%s] Name=%s, Type=%s, IP=%s, Routing=%s\n", ...)
FormatEntry(timestamp, p) ==
    << "[" \o timestamp \o "]",
       " Name=" \o p.DeviceName \o ",",
       " Type=" \o p.DeviceType \o ",",
       " IP=" \o p.IPAddress \o ",",
       " Routing=" \o p.RoutingType,
       "\n" >>

\* response bodies
EmptyLogMsg == <<"log file is empty or does not exist">>
WrittenMsg == <<"data written">>
ClearedMsg == <<"log file cleared">>
ErrorMsg == <<"error">>

\* the bodies and methods outside clients send
Bodies ==
    { Body("object", Fields, Payload1),
      Body("object", {"DeviceName", "IPAddress"}, Payload2),
      Body("string", {}, ZeroPayload) }

Methods == {"GET", "POST", "DELETE", "PUT"}

\* what server.log may hold when the program starts
InitialFiles ==
    { [exists |-> FALSE, data |-> <<>>],
      [exists |-> TRUE, data |-> <<>>],
      [exists |-> TRUE, data |-> FormatEntry(FormatTime(0), Payload2)] }

(* ---------------------------- requests --------------------------------- *)
\* handleRoot's switch on r.Method: where the request starts
Dispatch(method) ==
    CASE method = "GET" -> "lock"
      [] method = "POST" -> "decode"
      [] method = "DELETE" -> "lock"
      [] OTHER -> "done"

NewRequest(method, body, origin) ==
    [method |-> method, body |-> body, origin |-> origin,
     pc |-> Dispatch(method),
     payload |-> ZeroPayload, timestamp |-> "", logEntry |-> <<>>,
     written |-> 0,
     status |-> IF Dispatch(method) = "done" THEN StatusMethodNotAllowed ELSE 0,
     resp |-> IF Dispatch(method) = "done" THEN ErrorMsg ELSE <<>>,
     failure |-> "",
     seen |-> 0, afterDelete |-> FALSE,
     awaited |-> (origin = "sim")]

Ids == 1..Len(reqs)

Alive == mainPc # "exited"

Serving == Alive /\ listener = "bound"

\* the part of s from position a to position b
Slice(s, a, b) == [k \in 1..(b - a + 1) |-> s[a + k - 1]]

(* ------------------------- the log service ----------------------------- *)
\* An I/O anomaly happens now (the environment decides), within the budget.
Fault == faults < MaxFaults /\ faults' = faults + 1

NoFault == faults' = faults

\* a lock that never waits
CanLockAlways == TRUE

\* fileMutex.Lock() returns only when no one holds the mutex
CanLock == fileMutex = 0

\* where a request goes once it holds fileMutex
Critical(method) ==
    CASE method = "GET" -> "read"
      [] method = "POST" -> "open"
      [] OTHER -> "truncate"

\* a write to a descriptor opened without O_APPEND: the descriptor of each
\* open starts at offset 0, so the first bytes written replace the file's
AppendWriteAtStart(data, chunk) ==
    chunk \o Slice(data, Len(chunk) + 1, Len(data))

\* a write to a descriptor opened with O_APPEND puts the bytes at the end
AppendWrite(data, chunk) == data \o chunk

\* The error of a file operation: "nil", "ENOENT" (os.IsNotExist holds of
\* it) or "EIO" (any other error).  A missing file is reported as ENOENT;
\* an operation on an existing file fails with EIO when the environment
\* makes it fail.
osError(f, fails) ==
    IF ~f.exists THEN "ENOENT" ELSE IF fails THEN "EIO" ELSE "nil"

\* os.IsNotExist(err)
IsNotExist(err) == err = "ENOENT"

\* os.ReadFile(logFileName)
ReadFile(f, fails) ==
    [err |-> osError(f, fails),
     content |-> IF osError(f, fails) = "nil" THEN f.data ELSE <<>>]

\* os.Truncate(logFileName, 0): the error, and the file afterwards
Truncate(f, fails) ==
    [err |-> osError(f, fails),
     file |-> IF osError(f, fails) = "nil" THEN [f EXCEPT !.data = <<>>] ELSE f]

\* handleGet, main.go:69-80: the answer for the result of os.ReadFile
GetResult(err, content) ==
    IF IsNotExist(err) THEN [status |-> StatusOK, resp |-> EmptyLogMsg]
    ELSE IF err # "nil"
    THEN [status |-> StatusInternalServerError, resp |-> ErrorMsg]
    ELSE [status |-> StatusOK, resp |-> content]

\* handleDelete without the os.IsNotExist exemption
DeleteResultStrict(err) ==
    IF err # "nil"
    THEN [status |-> StatusInternalServerError, resp |-> ErrorMsg]
    ELSE [status |-> StatusOK, resp |-> ClearedMsg]

\* handleDelete, main.go:117-126: the answer for the result of os.Truncate
DeleteResult(err) ==
    IF err # "nil" /\ ~IsNotExist(err)
    THEN [status |-> StatusInternalServerError, resp |-> ErrorMsg]
    ELSE [status |-> StatusOK, resp |-> ClearedMsg]

\* os.OpenFile(..., O_APPEND|O_CREATE|O_WRONLY, 0644) that succeeds
OpenCreate(f) == [f EXCEPT !.exists = TRUE]

driverVars == <<listener, mainPc, sim, sent, outcomes, timeouts>>

\* A client outside the program sends a request; handleRoot dispatches it.
handleRoot(method, body) ==
    /\ Serving
    /\ Cardinality({h \in Ids : reqs[h].origin = "ext"}) < MaxRequests
    /\ reqs' = Append(reqs, NewRequest(method, body, "ext"))
    /\ UNCHANGED <<now, file, fileMutex, faults, driverVars, lockOrder, base,
                   completed, lastMod>>

\* handlePost, main.go:84-92: decode the body, take the timestamp, format
\* the entry; a body that does not decode is answered 400 at once.
PostDecode(h) ==
    /\ Serving
    /\ reqs[h].pc = "decode"
    /\ LET d == jsonDecode(reqs[h].body)
           ts == FormatTime(now)
       IN  reqs' = IF d.err
                   THEN [reqs EXCEPT ![h].pc = "done",
                                     ![h].status = StatusBadRequest,
                                     ![h].resp = ErrorMsg]
                   ELSE [reqs EXCEPT ![h].pc = "lock",
                                     ![h].payload = d.payload,
                                     ![h].timestamp = ts,
                                     ![h].logEntry = FormatEntry(ts, d.payload)]
    /\ UNCHANGED <<now, file, fileMutex, faults, driverVars, lockOrder, base,
                   completed, lastMod>>

\* fileMutex.Lock() at main.go:65, 94, 114
MutexLock(h) ==
    /\ Serving
    /\ reqs[h].pc = "lock"
    /\ CanLock
    /\ fileMutex' = h
    /\ reqs' = [reqs EXCEPT ![h].pc = Critical(reqs[h].method)]
    /\ lockOrder' = IF reqs[h].method = "POST" THEN Append(lockOrder, h)
                    ELSE lockOrder
    /\ UNCHANGED <<now, file, faults, driverVars, base, completed, lastMod>>

\* handleGet, main.go:68-80
GetRead(h) ==
    /\ Serving
    /\ reqs[h].pc = "read"
    /\ \E failed \in BOOLEAN :
          /\ failed => file.exists
          /\ IF failed THEN Fault ELSE NoFault
          /\ LET rd == ReadFile(file, failed)
                 res == GetResult(rd.err, rd.content)
             IN  reqs' = [reqs EXCEPT ![h].pc = "unlock",
                                      ![h].status = res.status,
                                      ![h].resp = res.resp,
                                      ![h].failure = IF failed THEN "read" ELSE "",
                                      ![h].seen = Len(completed),
                                      ![h].afterDelete = (lastMod = "delete")]
    /\ UNCHANGED <<now, file, fileMutex, driverVars, lockOrder, base,
                   completed, lastMod>>

\* handlePost, main.go:97-101
PostOpen(h) ==
    /\ Serving
    /\ reqs[h].pc = "open"
    /\ \/ /\ NoFault
          /\ file' = OpenCreate(file)
          /\ reqs' = [reqs EXCEPT ![h].pc = "write"]
       \/ /\ Fault
          /\ reqs' = [reqs EXCEPT ![h].pc = "unlock",
                                  ![h].status = StatusInternalServerError,
                                  ![h].resp = ErrorMsg,
                                  ![h].failure = "open"]
          /\ UNCHANGED file
    /\ lastMod' = "post"
    /\ UNCHANGED <<now, fileMutex, driverVars, lockOrder, base, completed>>

\* handlePost, main.go:104-110.  f.WriteString issues write calls until the
\* whole entry is written or one fails; each call appends what it wrote.
PostWrite(h) ==
    /\ Serving
    /\ reqs[h].pc = "write"
    /\ LET e == reqs[h].logEntry
           w == reqs[h].written
           n == Len(reqs[h].logEntry)
       IN  \/ /\ NoFault
              /\ file' = [file EXCEPT !.data = AppendWrite(@, Slice(e, w + 1, n))]
              /\ reqs' = [reqs EXCEPT ![h].pc = "unlock",
                                      ![h].written = n,
                                      ![h].status = StatusOK,
                                      ![h].resp = WrittenMsg]
           \/ /\ Fault
              /\ \E k \in 1..(n - w - 1) :
                    /\ file' = [file EXCEPT
                                  !.data = AppendWrite(@, Slice(e, w + 1, w + k))]
                    /\ reqs' = [reqs EXCEPT ![h].written = w + k]
           \/ /\ Fault
              /\ \E k \in 0..(n - w - 1) :
                    /\ file' = [file EXCEPT
                                  !.data = AppendWrite(@, Slice(e, w + 1, w + k))]
                    /\ reqs' = [reqs EXCEPT ![h].pc = "unlock",
                                            ![h].written = w + k,
                                            ![h].status = StatusInternalServerError,
                                            ![h].resp = ErrorMsg,
                                            ![h].failure = "write"]
    /\ lastMod' = "post"
    /\ UNCHANGED <<now, fileMutex, driverVars, lockOrder, base, completed>>

\* handleDelete, main.go:117-126
DeleteTruncate(h) ==
    /\ Serving
    /\ reqs[h].pc = "truncate"
    /\ \E failed \in BOOLEAN :
          /\ failed => file.exists
          /\ IF failed THEN Fault ELSE NoFault
          /\ LET tr == Truncate(file, failed)
                 res == DeleteResult(tr.err)
                 cleared == tr.err = "nil"
             IN  /\ reqs' = [reqs EXCEPT ![h].pc = "unlock",
                                         ![h].status = res.status,
                                         ![h].resp = res.resp,
                                         ![h].failure =
                                            IF failed THEN "truncate" ELSE ""]
                 /\ file' = tr.file
                 /\ lockOrder' = IF cleared THEN <<>> ELSE lockOrder
                 /\ base' = IF cleared THEN <<>> ELSE base
                 /\ lastMod' = IF res.status = StatusOK THEN "delete" ELSE lastMod
    /\ UNCHANGED <<now, fileMutex, driverVars, completed>>

\* an Unlock placed at the end of the handler instead of deferred: the
\* early returns of the error paths leave the mutex locked
UnlockOnSuccess(h) ==
    /\ Serving
    /\ reqs[h].pc = "unlock"
    /\ fileMutex' = IF reqs[h].status = StatusOK THEN 0 ELSE fileMutex
    /\ reqs' = [reqs EXCEPT ![h].pc = "done"]
    /\ completed' = IF reqs[h].method = "POST" /\ reqs[h].status = StatusOK
                    THEN Append(completed, h) ELSE completed
    /\ UNCHANGED <<now, file, faults, driverVars, lockOrder, base, lastMod>>

\* defer fileMutex.Unlock() at main.go:66, 95, 115: runs when the handler
\* returns, on every path; the response reaches the client after it.
Unlock(h) ==
    /\ Serving
    /\ reqs[h].pc = "unlock"
    /\ fileMutex' = 0
    /\ reqs' = [reqs EXCEPT ![h].pc = "done"]
    /\ completed' = IF reqs[h].method = "POST" /\ reqs[h].status = StatusOK
                    THEN Append(completed, h) ELSE completed
    /\ UNCHANGED <<now, file, faults, driverVars, lockOrder, base, lastMod>>

\* a second passes
Tick ==
    /\ Alive
    /\ now < MaxClock
    /\ now' = now + 1
    /\ UNCHANGED <<file, fileMutex, reqs, faults, driverVars, lockOrder, base,
                   completed, lastMod>>

(* ----------------------- the simulation driver ------------------------- *)
\* networks := []NetworkConfig{...}, main.go:139-142
networks ==
    << [SubnetPrefix |-> "192.168.1", PC |-> 3, Laptop |-> 1, Printer |-> 1],
       [SubnetPrefix |-> "192.168.2", PC |-> 3, Laptop |-> 1, Printer |-> 1] >>

\* devices := []struct{Type; Count}{...}, main.go:150-157
devices(netArg) ==
    << [Type |-> "PC", Count |-> netArg.PC],
       [Type |-> "Laptop", Count |-> netArg.Laptop],
       [Type |-> "Printer", Count |-> netArg.Printer] >>

\* runSimulation's loop variables on entry (netIdx and devIdx count from 0,
\* as range does); waiting is the request client.Post waits for
SimStart ==
    [pc |-> "loop", netIdx |-> 0, devIdx |-> 0, i |-> 1, ipCounter |-> FirstIP,
     waiting |-> 0]

SimIdle == [SimStart EXCEPT !.pc = "idle"]

\* The three loop headers, main.go:149, 161, 162: move to the next position
\* at which the innermost body runs, or to the end of the loops.
RECURSIVE Settle(_)
Settle(s) ==
    IF s.netIdx >= Len(networks) THEN [s EXCEPT !.pc = "done"]
    ELSE IF s.devIdx >= Len(devices(networks[s.netIdx + 1]))
    THEN Settle([s EXCEPT !.netIdx = @ + 1, !.devIdx = 0, !.i = 1,
                          !.ipCounter = FirstIP])
    ELSE IF s.i > devices(networks[s.netIdx + 1])[s.devIdx + 1].Count
    THEN Settle([s EXCEPT !.devIdx = @ + 1, !.i = 1])
    ELSE s

\* the parity test the other way round
RoutingForOdd(ipCounter) == IF ipCounter % 2 = 1 THEN "Dynamic" ELSE "Static"

\* routingType, main.go:165-168
RoutingFor(ipCounter) == IF ipCounter % 2 = 0 THEN "Dynamic" ELSE "Static"

\* the payload built at main.go:163-175
BuildPayload(s) ==
    LET netArg == networks[s.netIdx + 1]
        devGroup == devices(netArg)[s.devIdx + 1]
    IN  DevicePayload(
            devGroup.Type \o ToString(s.i) \o "_" \o ToString(s.netIdx + 1),
            devGroup.Type,
            netArg.SubnetPrefix \o "." \o ToString(s.ipCounter),
            RoutingFor(s.ipCounter))

\* a loop that gives up at the first request that does not succeed
AfterRequestOrStop(s, outcome) ==
    IF outcome = "success"
    THEN Settle([s EXCEPT !.pc = "loop", !.waiting = 0,
                          !.ipCounter = @ + 1, !.i = @ + 1])
    ELSE [s EXCEPT !.pc = "done", !.waiting = 0]

\* sendPostRequest has returned; whatever it reported (outcome), the loop
\* goes on: ipCounter++, i++ (main.go:179, 162) and the next iteration
AfterRequest(s, outcome) ==
    Settle([s EXCEPT !.pc = "loop", !.waiting = 0,
                     !.ipCounter = @ + 1, !.i = @ + 1])

\* client.Post reaches a handler only when the listener is bound; before
\* that the connection is refused
Connects(l) == l = "bound"

\* main goes on to the prompt (main.go:37-38) when runSimulation returns
MainAfter(s) == IF s.pc = "done" THEN "prompt" ELSE "simulate"

\* every payload the loops build from position s on, in order
RECURSIVE RecordsFrom(_)
RecordsFrom(s) ==
    IF s.pc = "done" THEN <<>>
    ELSE <<BuildPayload(s)>> \o RecordsFrom(AfterRequest(s, "transport"))

serverVars == <<now, file, fileMutex, faults, lockOrder, base, completed,
                lastMod>>

\* go startServer(), main.go:30
goStartServer ==
    /\ mainPc = "start"
    /\ mainPc' = "sleep"
    /\ listener' = "starting"
    /\ UNCHANGED <<serverVars, reqs, sim, sent, outcomes, timeouts>>

\* http.ListenAndServe binds :8080 and serves, main.go:46
ListenAndServe ==
    /\ Alive
    /\ listener = "starting"
    /\ listener' = "bound"
    /\ UNCHANGED <<serverVars, reqs, mainPc, sim, sent, outcomes, timeouts>>

\* http.ListenAndServe fails to bind; log.Fatalf ends the process,
\* main.go:46-48
ListenFails ==
    /\ Alive
    /\ listener = "starting"
    /\ listener' = "none"
    /\ mainPc' = "exited"
    /\ UNCHANGED <<serverVars, reqs, sim, sent, outcomes, timeouts>>

\* main without its time.Sleep: runSimulation starts at once
SleepSkipped ==
    /\ mainPc = "sleep"
    /\ now' = now
    /\ sim' = Settle(SimStart)
    /\ mainPc' = MainAfter(Settle(SimStart))
    /\ UNCHANGED <<file, fileMutex, faults, lockOrder, base, completed,
                   lastMod, reqs, listener, sent, outcomes, timeouts>>

\* time.Sleep(1 * time.Second) returns, a second later, and runSimulation
\* starts, main.go:32-35; nothing orders this after the listener's bind
Sleep ==
    /\ mainPc = "sleep"
    /\ now' = IF now < MaxClock THEN now + 1 ELSE now
    /\ sim' = Settle(SimStart)
    /\ mainPc' = MainAfter(Settle(SimStart))
    /\ UNCHANGED <<file, fileMutex, faults, lockOrder, base, completed,
                   lastMod, reqs, listener, sent, outcomes, timeouts>>

\* One iteration's body up to client.Post, main.go:163-177, 188-198: with
\* the listener bound the request reaches the server and the driver waits;
\* otherwise the connection is refused and sendPostRequest returns.
sendPostRequest ==
    /\ mainPc = "simulate"
    /\ sim.pc = "loop"
    /\ LET data == BuildPayload(sim)
           m == jsonMarshal(data)
       IN  /\ sent' = Append(sent, data)
           /\ IF m.err
              THEN /\ outcomes' = Append(outcomes, "marshal")
                   /\ sim' = AfterRequest(sim, "marshal")
                   /\ mainPc' = MainAfter(AfterRequest(sim, "marshal"))
                   /\ UNCHANGED reqs
              ELSE IF Connects(listener)
              THEN /\ reqs' = Append(reqs, NewRequest("POST", m.json, "sim"))
                   /\ sim' = [sim EXCEPT !.pc = "wait",
                                         !.waiting = Len(reqs) + 1]
                   /\ UNCHANGED <<outcomes, mainPc>>
              ELSE /\ outcomes' = Append(outcomes, "transport")
                   /\ sim' = AfterRequest(sim, "transport")
                   /\ mainPc' = MainAfter(AfterRequest(sim, "transport"))
                   /\ UNCHANGED reqs
    /\ UNCHANGED <<serverVars, listener, timeouts>>

\* client.Post returns the server's response, main.go:199-207
SimResponse ==
    /\ mainPc = "simulate"
    /\ sim.pc = "wait"
    /\ reqs[sim.waiting].pc = "done"
    /\ LET outcome == IF reqs[sim.waiting].status = StatusOK
                      THEN "success" ELSE "failure"
       IN  /\ outcomes' = Append(outcomes, outcome)
           /\ sim' = AfterRequest(sim, outcome)
           /\ mainPc' = MainAfter(AfterRequest(sim, outcome))
    /\ reqs' = [reqs EXCEPT ![sim.waiting].awaited = FALSE]
    /\ UNCHANGED <<serverVars, listener, sent, timeouts>>

\* client.Post gives up after the client's Timeout (main.go:144, 195-198);
\* the handler on the server runs on
SimTimeout ==
    /\ mainPc = "simulate"
    /\ sim.pc = "wait"
    /\ reqs[sim.waiting].pc # "done"
    /\ timeouts < MaxTimeouts
    /\ timeouts' = timeouts + 1
    /\ outcomes' = Append(outcomes, "transport")
    /\ reqs' = [reqs EXCEPT ![sim.waiting].awaited = FALSE]
    /\ sim' = AfterRequest(sim, "transport")
    /\ mainPc' = MainAfter(AfterRequest(sim, "transport"))
    /\ UNCHANGED <<serverVars, listener, sent>>

(* --------------------------- specifications ---------------------------- *)
\* The service at work: the listener is bound, main waits at its prompt
\* (the driver found nobody listening), outside clients send requests.
Init ==
    /\ now = 0
    /\ file \in InitialFiles
    /\ fileMutex = 0
    /\ reqs = <<>>
    /\ faults = 0
    /\ listener = "bound"
    /\ mainPc = "prompt"
    /\ sim = Settle([SimStart EXCEPT !.netIdx = Len(networks)])
    /\ sent = RecordsFrom(Settle(SimStart))
    /\ outcomes = [k \in 1..Len(RecordsFrom(Settle(SimStart))) |-> "transport"]
    /\ timeouts = 0
    /\ lockOrder = <<>>
    /\ base = file.data
    /\ completed = <<>>
    /\ lastMod = "none"

Next ==
    \/ \E body \in Bodies : handleRoot("POST", body)
    \/ \E method \in Methods \ {"POST"} : handleRoot(method, NoBody)
    \/ \E h \in Ids : PostDecode(h)
    \/ \E h \in Ids : MutexLock(h)
    \/ \E h \in Ids : GetRead(h)
    \/ \E h \in Ids : PostOpen(h)
    \/ \E h \in Ids : PostWrite(h)
    \/ \E h \in Ids : DeleteTruncate(h)
    \/ \E h \in Ids : Unlock(h)
    \/ Tick

Spec == Init /\ [][Next]_vars

\* The program from its start in a directory without a server.log: main,
\* the listener, the driver and the handlers of the driver's requests.  The
\* clock moves with main's sleep.
SimInit ==
    /\ now = 0
    /\ file = [exists |-> FALSE, data |-> <<>>]
    /\ fileMutex = 0
    /\ reqs = <<>>
    /\ faults = 0
    /\ listener = "none"
    /\ mainPc = "start"
    /\ sim = SimIdle
    /\ sent = <<>>
    /\ outcomes = <<>>
    /\ timeouts = 0
    /\ lockOrder = <<>>
    /\ base = file.data
    /\ completed = <<>>
    /\ lastMod = "none"

SimNext ==
    \/ goStartServer
    \/ ListenAndServe
    \/ ListenFails
    \/ Sleep
    \/ sendPostRequest
    \/ SimResponse
    \/ SimTimeout
    \/ \E h \in Ids : PostDecode(h)
    \/ \E h \in Ids : MutexLock(h)
    \/ \E h \in Ids : PostOpen(h)
    \/ \E h \in Ids : PostWrite(h)
    \/ \E h \in Ids : Unlock(h)

SimSpec == SimInit /\ [][SimNext]_vars

\* Every goroutine that can run does run, and a pending timeout fires.
FairSimSpec == SimSpec /\ WF_vars(SimNext)

(* ------------------------ reading the log ------------------------------ *)
\* the concatenation of a sequence of token sequences
RECURSIVE Flatten(_)
Flatten(ss) == IF ss = <<>> THEN <<>> ELSE Head(ss) \o Flatten(Tail(ss))

\* Split a content at its line ends: the complete lines (without the "\n")
\* and what follows the last line end.
RECURSIVE SplitLines(_)
SplitLines(data) ==
    IF \A k \in 1..Len(data) : data[k] # "\n"
    THEN [lines |-> <<>>, rest |-> data]
    ELSE LET k == CHOOSE k \in 1..Len(data) :
                     data[k] = "\n" /\ \A j \in 1..(k - 1) : data[j] # "\n"
             more == SplitLines(Slice(data, k + 1, Len(data)))
         IN  [lines |-> <<Slice(data, 1, k - 1)>> \o more.lines,
              rest |-> more.rest]

\* the value a posted body gives for field f (nothing when it is not named)
Given(body, f) == IF f \in body.keys THEN body.val[f] ELSE ""

\* the line the spec prescribes for a posted body, for timestamp ts
SpecLine(ts, body) ==
    << "[" \o ts \o "]",
       " Name=" \o Given(body, "DeviceName") \o ",",
       " Type=" \o Given(body, "DeviceType") \o ",",
       " IP=" \o Given(body, "IPAddress") \o ",",
       " Routing=" \o Given(body, "RoutingType") >>

Timestamps == {FormatTime(t) : t \in 0..MaxClock}

\* what request h has written to the file so far
WrittenBy(h) == Slice(reqs[h].logEntry, 1, reqs[h].written)

Posts == {h \in Ids : reqs[h].method = "POST"}

\* h is past its file operation
Acted(h) == reqs[h].pc \in {"unlock", "done"}

\* no DELETE has run and no append has failed half-way
NoDelete == \A h \in Ids : reqs[h].method = "DELETE" => ~Acted(h)
NoFailedWrite == \A h \in Posts : reqs[h].failure # "write"

(* ------------------------------- C1 ------------------------------------ *)
\* C1: starting from an absent or empty log, with no DELETE and no failed
\* append, a GET that answers 200 returns exactly one line per POST that
\* had returned 200 when it read the file, in the order the POSTs
\* completed; line i is "[<timestamp>] Name=.., Type=.., IP=.., Routing=.."
\* with the four fields of the i-th POST's body, and nothing follows the
\* last line.
C1_GetReturnsPostedLines ==
    \A g \in Ids :
        ( /\ reqs[g].method = "GET"
          /\ Acted(g)
          /\ reqs[g].status = StatusOK
          /\ base = <<>>
          /\ NoDelete
          /\ NoFailedWrite )
        => LET content == IF reqs[g].resp = EmptyLogMsg THEN <<>>
                          ELSE reqs[g].resp
               sp == SplitLines(content)
               n == reqs[g].seen
           IN  /\ sp.rest = <<>>
               /\ Len(sp.lines) = n
               /\ \A i \in 1..n :
                     \E ts \in Timestamps :
                        sp.lines[i] = SpecLine(ts, reqs[completed[i]].body)

\* two POSTs have returned 200 and a GET has then returned their two lines,
\* the first of them the line of the spec's example
C1_Witness ==
    \E g \in Ids :
        /\ reqs[g].method = "GET" /\ reqs[g].pc = "done"
        /\ reqs[g].status = StatusOK
        /\ base = <<>> /\ NoDelete /\ NoFailedWrite
        /\ reqs[g].seen = 2
        /\ Len(SplitLines(reqs[g].resp).lines) = 2
        /\ \E ts \in Timestamps :
              SplitLines(reqs[g].resp).lines[1] =
                 << "[" \o ts \o "]", " Name=PC1_1,", " Type=PC,",
                    " IP=192.168.1.10,", " Routing=Static" >>

(* ------------------------------- C2 ------------------------------------ *)
\* the POSTs whose whole entry is in the file
Writers == {h \in Posts : reqs[h].written > 0
                          /\ reqs[h].written = Len(reqs[h].logEntry)}

\* C2: as long as no append has failed, whatever the interleaving of the
\* handlers, the only incomplete text in the log is the beginning of the
\* entry of the one POST that holds the lock and is still writing, and no
\* GET has returned a line cut short; and with no DELETE either, the log
\* after its starting content holds exactly one complete line per POST that
\* has written, every such POST's line as often as there are POSTs with
\* that very line, and every DeviceName in as many lines as POSTs gave it
\* (one, when the DeviceNames differ).
C2_AppendsAreAtomic ==
    /\ NoFailedWrite =>
          /\ \/ SplitLines(file.data).rest = <<>>
             \/ /\ fileMutex \in Posts
                /\ reqs[fileMutex].pc = "write"
                /\ reqs[fileMutex].written < Len(reqs[fileMutex].logEntry)
                /\ SplitLines(file.data).rest = WrittenBy(fileMutex)
          /\ \A g \in Ids :
                ( /\ reqs[g].method = "GET" /\ Acted(g)
                  /\ reqs[g].status = StatusOK
                  /\ reqs[g].resp # EmptyLogMsg )
                => SplitLines(reqs[g].resp).rest = <<>>
    /\ (NoDelete /\ NoFailedWrite) =>
          /\ Len(file.data) >= Len(base)
          /\ Slice(file.data, 1, Len(base)) = base
          /\ LET sp == SplitLines(Slice(file.data, Len(base) + 1,
                                        Len(file.data)))
                 LinesOf(h) == {i \in 1..Len(sp.lines) :
                                   sp.lines[i] \o <<"\n">> = reqs[h].logEntry}
                 NamedBy(h) == {i \in 1..Len(sp.lines) :
                                   sp.lines[i][2] =
                                      " Name=" \o reqs[h].payload.DeviceName
                                               \o ","}
             IN  /\ Len(sp.lines) = Cardinality(Writers)
                 /\ \A h \in Writers :
                       /\ Cardinality(LinesOf(h)) =
                             Cardinality({h2 \in Writers :
                                            reqs[h2].logEntry = reqs[h].logEntry})
                       /\ Cardinality(NamedBy(h)) =
                             Cardinality({h2 \in Writers :
                                            reqs[h2].payload.DeviceName =
                                               reqs[h].payload.DeviceName})

\* three POSTs with two different DeviceNames were in their handlers at
\* once: all three have returned 200, yet the one that arrived last took
\* the lock first, and the log holds three complete lines
C2_Witness ==
    /\ NoDelete /\ NoFailedWrite
    /\ Cardinality(Writers) = 3
    /\ \A h \in Writers : reqs[h].pc = "done" /\ reqs[h].status = StatusOK
    /\ Len(lockOrder) = 3 /\ lockOrder[1] = 3
    /\ faults > 0
    /\ Cardinality({reqs[h].payload.DeviceName : h \in Writers}) = 2
    /\ Len(SplitLines(file.data).lines) = 3 + Len(SplitLines(base).lines)

(* ------------------------------- C3 ------------------------------------ *)
\* C3: a GET that follows a successful DELETE, with no POST in between,
\* returns the fixed empty-log message, whatever the log held before.
C3_DeleteThenGetEmptyMsg ==
    \A g \in Ids :
        ( /\ reqs[g].method = "GET"
          /\ Acted(g)
          /\ reqs[g].status = StatusOK
          /\ reqs[g].afterDelete )
        => reqs[g].resp = EmptyLogMsg

(* ------------------------------- C4 ------------------------------------ *)
\* the POSTs whose body is no JSON object
Malformed == {h \in Posts : reqs[h].body.kind # "object"}

\* C4: a POST whose body fails to decode is answered 400 without ever
\* waiting for or holding fileMutex; its handler can always take its one
\* step, whoever holds the lock, and that step leaves the file and the lock
\* as they were.
C4_MalformedPostTouchesNothing ==
    /\ [](\A h \in Malformed :
             /\ reqs[h].pc \in {"decode", "done"}
             /\ reqs[h].pc = "done" => reqs[h].status = StatusBadRequest
             /\ reqs[h].pc = "decode" => ENABLED PostDecode(h)
             /\ fileMutex # h
             /\ \A k \in 1..Len(lockOrder) : lockOrder[k] # h
             /\ reqs[h].written = 0)
    /\ [][\A h \in Malformed :
             (reqs[h].pc = "decode" /\ reqs'[h].pc # "decode")
             => (file' = file /\ fileMutex' = fileMutex)]_vars

\* a malformed POST has been answered 400 while a well-formed POST that
\* arrived before it was holding the lock in the middle of its write, and
\* the file did not exist when the program started
C4_Witness ==
    \E h \in Malformed : \E w \in Posts :
        /\ w < h
        /\ reqs[h].pc = "done" /\ reqs[h].status = StatusBadRequest
        /\ fileMutex = w /\ reqs[w].pc = "write"
        /\ reqs[w].written > 0
        /\ base = <<>>

(* ------------------------------- C5 ------------------------------------ *)
\* C5: when the log file does not exist, the file operation of a GET is
\* answered 200 with the empty-log message and that of a DELETE 200 with
\* the cleared message, and the file still does not exist afterwards; a
\* read or truncate that fails for another reason is answered 500.
C5_AbsentFileIsSuccess ==
    /\ [][\A h \in Ids :
             ( /\ reqs[h].pc \in {"read", "truncate"}
               /\ reqs'[h].pc # reqs[h].pc
               /\ ~file.exists )
             => /\ reqs'[h].status = StatusOK
                /\ reqs'[h].resp = IF reqs[h].method = "GET" THEN EmptyLogMsg
                                   ELSE ClearedMsg
                /\ ~file'.exists]_vars
    /\ [](\A h \in Ids :
             reqs[h].failure \in {"read", "truncate"}
             => reqs[h].status = StatusInternalServerError)

\* a GET and a DELETE have both been answered 200 and the file does not
\* exist (it never did: nothing removes it)
C5_Witness ==
    /\ ~file.exists
    /\ \E g \in Ids : /\ reqs[g].method = "GET" /\ reqs[g].pc = "done"
                      /\ reqs[g].status = StatusOK
                      /\ reqs[g].resp = EmptyLogMsg
    /\ \E d \in Ids : /\ reqs[d].method = "DELETE" /\ reqs[d].pc = "done"
                      /\ reqs[d].status = StatusOK
                      /\ reqs[d].resp = ClearedMsg

(* ------------------------------- C6 ------------------------------------ *)
\* the requests between their Lock and their return
InCritical ==
    {h \in Ids : reqs[h].pc \in {"read", "open", "write", "truncate", "unlock"}}

\* C6: at most one handler is between its lock acquisition and its return,
\* and it is the one recorded as holding fileMutex, so every read, append
\* and truncate is done by the holder; a handler that has returned, on
\* whatever path, does not hold the mutex, which is free whenever no handler
\* is in its critical section; and the holder can always take a step, so a
\* waiting handler is never blocked by a finished one.
C6_MutualExclusionNoLeak ==
    /\ Cardinality(InCritical) <= 1
    /\ InCritical = IF fileMutex = 0 THEN {} ELSE {fileMutex}
    /\ \A h \in Ids : reqs[h].pc = "done" => fileMutex # h
    /\ (\A h \in Ids : reqs[h].pc \in {"done", "decode"}) => fileMutex = 0
    /\ fileMutex # 0 =>
          ENABLED ( \/ GetRead(fileMutex) \/ PostOpen(fileMutex)
                    \/ PostWrite(fileMutex) \/ DeleteTruncate(fileMutex)
                    \/ Unlock(fileMutex) )

\* a handler has returned 500 from inside its critical section and a
\* handler that was waiting meanwhile now holds the lock
C6_Witness ==
    \E h \in Ids : \E w \in Ids :
        /\ reqs[h].pc = "done" /\ reqs[h].failure # ""
        /\ fileMutex = w /\ w # h
        /\ \E k \in Ids : k # w /\ reqs[k].pc = "lock"

(* ------------------------------- C10 ----------------------------------- *)
\* C10: the file is its starting content followed by what each POST has
\* written, in the order in which the POSTs took fileMutex; and a POST has
\* its timestamp and its formatted entry before it asks for the lock, the
\* timestamp being the time of its decoding, not of its locking.
C10_FileOrderIsLockOrder ==
    /\ file.data =
          base \o Flatten([k \in 1..Len(lockOrder) |-> WrittenBy(lockOrder[k])])
    /\ \A h \in Posts :
          reqs[h].pc \in {"lock", "open", "write", "unlock"}
          => /\ reqs[h].timestamp \in Timestamps
             /\ reqs[h].logEntry = FormatEntry(reqs[h].timestamp, reqs[h].payload)

\* the log holds two complete lines, the first with the later timestamp:
\* its POST was decoded after the other one's, and locked before
C10_Witness ==
    /\ Len(lockOrder) >= 2
    /\ {lockOrder[1], lockOrder[2]} \subseteq Writers
    /\ reqs[lockOrder[1]].timestamp = FormatTime(1)
    /\ reqs[lockOrder[2]].timestamp = FormatTime(0)
    /\ LET sp == SplitLines(Slice(file.data, Len(base) + 1, Len(file.data)))
       IN  /\ Len(sp.lines) >= 2
           /\ sp.lines[1][1] = "[T1]"
           /\ sp.lines[2][1] = "[T0]"

(* ------------------------------- C7 ------------------------------------ *)
\* the ten records of the spec, written out
ExpectedRecords ==
    << DevicePayload("PC1_1", "PC", "192.168.1.10", "Dynamic"),
       DevicePayload("PC2_1", "PC", "192.168.1.11", "Static"),
       DevicePayload("PC3_1", "PC", "192.168.1.12", "Dynamic"),
       DevicePayload("Laptop1_1", "Laptop", "192.168.1.13", "Static"),
       DevicePayload("Printer1_1", "Printer", "192.168.1.14", "Dynamic"),
       DevicePayload("PC1_2", "PC", "192.168.2.10", "Dynamic"),
       DevicePayload("PC2_2", "PC", "192.168.2.11", "Static"),
       DevicePayload("PC3_2", "PC", "192.168.2.12", "Dynamic"),
       DevicePayload("Laptop1_2", "Laptop", "192.168.2.13", "Static"),
       DevicePayload("Printer1_2", "Printer", "192.168.2.14", "Dynamic") >>

\* C7: the driver hands sendPostRequest the ten records of the spec in
\* their order: what it has sent so far is always the beginning of that
\* list, and the whole list once the loops have ended.
C7_TenRecordsInOrder ==
    /\ Len(sent) <= Len(ExpectedRecords)
    /\ \A k \in 1..Len(sent) : sent[k] = ExpectedRecords[k]
    /\ sim.pc = "done" => Len(sent) = 10

\* the loops have ended, in a run in which requests were answered 200
C7_Witness ==
    /\ sim.pc = "done" /\ mainPc = "prompt"
    /\ Len(sent) = 10
    /\ \E k \in 1..Len(outcomes) : outcomes[k] = "success"

(* ------------------------------- C8 ------------------------------------ *)
\* the driver's requests whose client.Post has not returned yet
InFlight == {h \in Ids : reqs[h].origin = "sim" /\ reqs[h].awaited}

\* C8: the driver has at most one request in flight, and only while it
\* waits in client.Post; every record it has sent but the one in flight has
\* had its outcome reported before the next was sent; no record is sent
\* twice and no request is made twice, whatever the outcomes were; the
\* loops end only when all ten records have been sent; and, as long as the
\* process lives, the loops do end.
C8_SequentialFailureOblivious ==
    /\ [](/\ Cardinality(InFlight) <= 1
          /\ InFlight = IF sim.pc = "wait" THEN {sim.waiting} ELSE {}
          /\ Len(outcomes) = Len(sent) - Cardinality(InFlight)
          /\ \A j, k \in 1..Len(sent) : sent[j] = sent[k] => j = k
          /\ Len(reqs) <= Len(sent)
          /\ sim.pc = "done" => (Len(sent) = 10 /\ Len(outcomes) = 10))
    /\ <>(sim.pc = "done" \/ ~Alive)

\* the loops have ended after a refused connection, a timeout, a 500 and
\* a 200, with all ten records sent
C8_Witness ==
    /\ sim.pc = "done"
    /\ Len(sent) = 10
    /\ timeouts > 0
    /\ \E k \in 1..10 : outcomes[k] = "failure"
    /\ \E k \in 1..10 : outcomes[k] = "success"
    /\ Cardinality({k \in 1..10 : outcomes[k] = "transport"}) >= 2

(* ------------------------------- C9 ------------------------------------ *)
\* the records that never reached a handler
Refused == Len(sent) - Len(reqs)

\* C9 as stated: the first simulation POST is sent only after the listener
\* is bound, so no record is lost to a refused connection.
C9_FirstPostAfterBind ==
    Len(sent) > 0 => (listener = "bound" /\ Refused = 0)

\* C9 as amended: the driver starts the listener in the background and
\* sleeps one second; the first POST is sent only after that second has
\* passed and the listener was started, bound or not; a request reaches a
\* handler only when the listener is bound, and each record sent before
\* that is reported as a transport failure and is not sent again.
C9_FirstPostAfterSleep ==
    /\ Len(sent) > 0 => (now >= 1 /\ mainPc \notin {"start", "sleep"})
    /\ sim.pc # "idle" => (listener # "none" \/ ~Alive)
    /\ Len(reqs) > 0 => listener = "bound"
    /\ Refused >= 0
    /\ Cardinality({k \in 1..Len(outcomes) : outcomes[k] = "transport"})
          = Refused + timeouts
    /\ \A k \in 1..Len(lockOrder) : lockOrder[k] \in Ids

\* the sleep ended before the listener was bound: the first two records
\* were refused, then the listener bound and a later record was logged
C9_Witness ==
    /\ listener = "bound"
    /\ timeouts = 0
    /\ Refused = 2
    /\ Len(outcomes) >= 3
    /\ outcomes[1] = "transport" /\ outcomes[2] = "transport"
    /\ outcomes[3] = "success"
    /\ Len(SplitLines(file.data).lines) > Len(SplitLines(base).lines)

====
